---- MODULE Spec2Model ----
(***************************************************************************)
(* Model of the socket handoff subsystem of src/src/socket.rs: the         *)
(* descriptor registry (FileDescriptorsMap), the wire codec                *)
(* (serialize_vec_string / deserialize_vec_string), the sender             *)
(* (send_fds_to) and the receiver (get_fds_from, accept_with_retry),       *)
(* together with the part of the kernel they talk to: the socket path,     *)
(* the listening socket's backlog, and the per-process descriptor tables.  *)
(*                                                                         *)
(* Strings are sequences of one-character strings, so that joining and     *)
(* splitting are computed character by character.                          *)
(***************************************************************************)
EXTENDS Integers, Sequences, FiniteSets, TLC

(***************************************************************************)
(* Program constants.                                                      *)
(***************************************************************************)
MAX_RETRY == 5
MAX_NONBLOCKING_POLLS == 20
MAX_FDS == 32
BUF_SIZE == 2048

(***************************************************************************)
(* Bounds of the model.                                                    *)
(***************************************************************************)
\* largest registry built with add() (bulk registries come from deserialize)
MaxEntries == 2
\* calls of block_socket_and_send_to_new_server when transfers are repeated
MaxSendCalls == 2
\* longest list of names handed to the codec on its own
MaxCodecLen == 2
\* entries of a registry that holds the identifier longer than the buffer
MaxLongEntries == 1
\* calls of add, deserialize and get made on one registry
MaxRegistryOps == 3

(***************************************************************************)
(* Generic helpers.                                                        *)
(***************************************************************************)
Min(a, b) == IF a <= b THEN a ELSE b

Range(s) == {s[i] : i \in 1..Len(s)}

Reverse(s) == [i \in 1..Len(s) |-> s[Len(s) + 1 - i]]

\* all orderings of a finite set, as sequences without repetition
Perms(S) ==
    {f \in [1..Cardinality(S) -> S] : \A i, j \in 1..Cardinality(S) : f[i] = f[j] => i = j}

\* the k-th smallest element (k >= 1) of a finite set of integers
KthSmallest(S, k) == CHOOSE x \in S : Cardinality({y \in S : y < x}) = k - 1

\* lowest descriptor number >= 3 not in use: what socket()/accept()/recvmsg allocate
LowestFree(used) == CHOOSE n \in 3..(3 + Cardinality(used)) :
                        n \notin used /\ \A m \in 3..(n - 1) : m \in used

(***************************************************************************)
(* Bind identifiers used as inputs.                                        *)
(***************************************************************************)
NameA == <<"a">>
NameB == <<"b">>
NameEmpty == << >>
NameSpace == <<"a", " ", "b">>
\* one byte more than the serialization buffer holds
NameLong == [i \in 1..(BUF_SIZE + 1) |-> "a"]

\* the i-th of the identifiers used to fill a registry to the descriptor limit:
\* two letters, the digits of i - 1 in base six
Letters == <<"a", "b", "c", "d", "e", "f">>
BulkName(i) == <<Letters[((i - 1) \div 6) + 1], Letters[((i - 1) % 6) + 1]>>
BulkNames(n) == [i \in 1..n |-> BulkName(i)]
BulkFds(n) == [i \in 1..n |-> 2 + i]

IsWhitespace(c) == c \in {" ", "\t", "\n", "\r", "\f"}

\* a list of names the round trip is promised for: distinct, non-empty, no whitespace
WellFormedName(s) == Len(s) > 0 /\ \A i \in 1..Len(s) : ~IsWhitespace(s[i])
WellFormedNames(v) ==
    /\ \A i \in 1..Len(v) : WellFormedName(v[i])
    /\ \A i, j \in 1..Len(v) : v[i] = v[j] => i = j

(***************************************************************************)
(* FileDescriptorsMap: a function from bind identifiers to descriptor      *)
(* numbers.                                                                *)
(***************************************************************************)
EmptyMap == [b \in {} |-> 0]

\* an insert that keeps the descriptor of an identifier already present
MapInsert_keepold(map, bind, fd) ==
    [b \in (DOMAIN map) \cup {bind} |-> IF b \in DOMAIN map THEN map[b] ELSE fd]

\* HashMap::insert: insert or replace
MapInsert(map, bind, fd) ==
    [b \in (DOMAIN map) \cup {bind} |-> IF b = bind THEN fd ELSE map[b]]

add(map, bind, fd) == MapInsert(map, bind, fd)

\* Option<&RawFd>: the set holding the descriptor, or the empty set for None
get(map, bind) == IF bind \in DOMAIN map THEN {map[bind]} ELSE {}

\* The iteration orders the HashMap of a registry may have.  Every ordering of
\* the keys is possible; for the bulk registries only the two extreme ones are
\* enumerated.
IterOrders(map) ==
    IF Cardinality(DOMAIN map) <= MaxEntries + 1
    THEN Perms(DOMAIN map)
    ELSE {o \in {BulkNames(Cardinality(DOMAIN map)),
                 Reverse(BulkNames(Cardinality(DOMAIN map)))} :
             Range(o) = DOMAIN map}

\* serialize with the single map iteration made explicit: a vector of (key, value)
\* pairs in iteration order, split into the two parallel vectors
serialize_wrongvalues(map, order) ==
    <<order, [i \in 1..Len(order) |-> map[order[(i % Len(order)) + 1]]]>>

serialize(map, order) ==
    <<order, [i \in 1..Len(order) |-> map[order[i]]]>>

\* the for loop of deserialize: insert binds[i] -> fds[i] for i = from..Len(binds)
RECURSIVE InsertFrom(_, _, _, _)
InsertFrom(map, binds, fds, i) ==
    IF i > Len(binds) THEN map
    ELSE InsertFrom(MapInsert(map, binds[i], fds[i]), binds, fds, i + 1)

\* deserialize without its assertion: inserts while both vectors have an element
\* and then fails on the index that is out of bounds
deserialize_noassert(map, binds, fds) ==
    IF Len(binds) <= Len(fds)
    THEN [panic |-> FALSE, map |-> InsertFrom(map, binds, fds, 1)]
    ELSE [panic |-> TRUE,
          map |-> InsertFrom(map, SubSeq(binds, 1, Len(fds)), fds, 1)]

\* deserialize pairing each name with the descriptor of the next position
deserialize_shifted(map, binds, fds) ==
    IF Len(binds) # Len(fds)
    THEN [panic |-> TRUE, map |-> map]
    ELSE [panic |-> FALSE,
          map |-> InsertFrom(map, binds,
                             [i \in 1..Len(fds) |-> fds[(i % Len(fds)) + 1]], 1)]

\* deserialize: assert!(binds.len() == fds.len()) aborts before the loop
deserialize(map, binds, fds) ==
    IF Len(binds) # Len(fds)
    THEN [panic |-> TRUE, map |-> map]
    ELSE [panic |-> FALSE, map |-> InsertFrom(map, binds, fds, 1)]

(***************************************************************************)
(* Wire codec.                                                             *)
(***************************************************************************)
\* [String]::join(" ")
RECURSIVE Join(_)
Join(v) ==
    IF Len(v) = 0 THEN << >>
    ELSE IF Len(v) = 1 THEN v[1]
    ELSE v[1] \o <<" ">> \o Join(Tail(v))

\* <&mut [u8] as Write>::write: copies min(data.len(), buffer.len()) bytes to the
\* front of the buffer and returns that count.  The buffer is all zero before, so
\* it is represented by the bytes written ("bytes") and the count ("size").
SliceWrite(data, capacity) ==
    [bytes |-> SubSeq(data, 1, Min(Len(data), capacity)),
     size |-> Min(Len(data), capacity)]

\* serialize_vec_string reporting the length of the joined string, not the count
\* of bytes that fitted
serialize_vec_string_nolimit(vec_string, capacity) ==
    [bytes |-> Join(vec_string), size |-> Len(Join(vec_string))]

serialize_vec_string(vec_string, capacity) ==
    SliceWrite(Join(vec_string), capacity)

\* &ser_buf[..ser_key_size]
BufSlice(written) == SubSeq(written.bytes, 1, written.size)

\* positions where a token of split_ascii_whitespace starts and ends
TokenStarts(s) ==
    {i \in 1..Len(s) : ~IsWhitespace(s[i]) /\ (i = 1 \/ IsWhitespace(s[i - 1]))}
TokenEnds(s) ==
    {i \in 1..Len(s) : ~IsWhitespace(s[i]) /\ (i = Len(s) \/ IsWhitespace(s[i + 1]))}

\* deserialize_vec_string losing the last token
deserialize_vec_string_droplast(buffer) ==
    [k \in 1..(Cardinality(TokenStarts(buffer)) - 1) |->
        SubSeq(buffer, KthSmallest(TokenStarts(buffer), k),
                       KthSmallest(TokenEnds(buffer), k))]

\* deserialize_vec_string: the tokens of split_ascii_whitespace, in order
deserialize_vec_string(buffer) ==
    [k \in 1..Cardinality(TokenStarts(buffer)) |->
        SubSeq(buffer, KthSmallest(TokenStarts(buffer), k),
                       KthSmallest(TokenEnds(buffer), k))]

(***************************************************************************)
(* State.                                                                  *)
(***************************************************************************)
VARIABLES
    \* the kernel and the filesystem
    path,        \* the well-known path: "absent", "stale" (left by an earlier run), "bound"
    pathMode,    \* permissions of the socket file: "restricted" or "all"
    pathValid,   \* whether the path fits a socket address (UnixAddr::new succeeds)
    lsock,       \* the receiver's listening socket: "none", "created", "bound", "listening", "closed"
    conns,       \* the connections made to the listening socket, in order of arrival
    faults,      \* whether system calls fail for reasons outside the two processes
    \* the old process: its registry and one call of block_socket_and_send_to_new_server
    sMap,        \* FileDescriptorsMap::map
    sOpen,       \* descriptor numbers open in the old process
    sPc,         \* "idle", "connect", "sendmsg"
    sCalls,      \* calls started so far
    sCallsLeft,  \* calls the old process will still make
    sSentMap,    \* the registry as it was when the current or last call started
    sVecKey, sVecFds, sPayload,   \* vec_key, vec_fds, &ser_buf[..ser_key_size]
    sSendFd,     \* send_fd, 0 before socket()
    sConn,       \* index in conns of the connection of send_fd, 0 when not connected
    sRetried, sPolls,             \* retried, nonblocking_polls
    sSleeps, sPollSleeps,         \* sleeps of RETRY_INTERVAL and of NONBLOCKING_POLL_INTERVAL in this call
    sConnects, sSendmsgs,         \* connect() and sendmsg() calls made in this call
    sResult,     \* what the last call returned
    handedOff,   \* the descriptor lists that were ancillary data of a successful sendmsg
    \* the new process: its registry and one call of get_from_sock
    rMap,        \* FileDescriptorsMap::map
    rOpen,       \* descriptor table of the new process: number -> open file
    rPc,         \* "idle", "unlink", "bind", "chmod", "listen", "accept", "recv", "panicked"
    rCalls,      \* calls started so far
    rCallsLeft,  \* calls the new process will still make
    rMapAtCall,  \* the registry as it was when the current or last call started
    rListenFd, rConnFd,           \* listen_fd and the accepted fd, 0 before they exist
    rRetried,    \* retried of accept_with_retry
    rSleeps, rAccepts, rRecvmsgs, \* sleeps, accept() and recvmsg() calls made in this call
    rKeys, rFds, \* the names decoded and the descriptors received by the last recvmsg
    rResult,     \* what the last call returned
    \* the codec and the registry functions applied on their own
    cPhase, cMap, cVecKey, cVecFds, cNames, cBuf, cSize, cPayload, cKeys, cMap2,
    \* one registry under a sequence of add, deserialize and get calls
    gMap,        \* FileDescriptorsMap::map
    gPrev,       \* the registry before the last call
    gOp,         \* the last call: its name, its arguments, what get returned
    gCalls       \* calls made so far

kvars == <<path, pathMode, pathValid, lsock, conns, faults>>
sLocals == <<sVecKey, sVecFds, sPayload, sSendFd, sConn, sRetried, sPolls,
             sSleeps, sPollSleeps, sConnects, sSendmsgs>>
svars == <<sMap, sOpen, sPc, sCalls, sCallsLeft, sSentMap, sLocals, sResult, handedOff>>
rLocals == <<rListenFd, rConnFd, rRetried, rSleeps, rAccepts, rRecvmsgs, rKeys, rFds>>
rvars == <<rMap, rOpen, rPc, rCalls, rCallsLeft, rMapAtCall, rLocals, rResult>>
gvars == <<gMap, gPrev, gOp, gCalls>>
cvars == <<cPhase, cMap, cVecKey, cVecFds, cNames, cBuf, cSize, cPayload, cKeys, cMap2,
           gvars>>
vars == <<kvars, svars, rvars, cvars>>

\* results of the two public calls
NoResult == [kind |-> "none", err |-> "", n |-> 0]
Ok(n) == [kind |-> "Ok", err |-> "", n |-> n]
Err(e) == [kind |-> "Err", err |-> e, n |-> 0]

\* open files, as the kernel sees them
ListenFile == [kind |-> "listen", id |-> 0]
ConnFile(c) == [kind |-> "conn", id |-> c]
\* the socket behind descriptor fd of the old process
SenderFile(fd) == [kind |-> "listener", id |-> fd]

\* what the old process registers with add(): a bind identifier with the
\* descriptor of the socket listening on it
Listeners == {<<NameA, 3>>, <<NameB, 4>>, <<NameEmpty, 5>>, <<NameSpace, 6>>,
              <<NameLong, 7>>}
\* descriptors given to the registry functions applied on their own
AddFds == {3, 4}
\* inputs of deserialize on the old process's registry: registries at and one
\* past the descriptor limit of one transfer
BulkSizes == {MAX_FDS, MAX_FDS + 1}

(***************************************************************************)
(* The kernel: what connect(), sendmsg(), accept() and recvmsg() can return *)
(* in the current state.  Besides the results that follow from the state   *)
(* of the path and of the listening socket, every call can fail with an    *)
(* error the program does not classify ("EOTHER"), connect() can report    *)
(* EINPROGRESS and sendmsg() EAGAIN.                                       *)
(***************************************************************************)
\* the connect loop taking every error but EINPROGRESS for "the server is not ready"
NotReadyErrors_withOther == {"ENOENT", "ECONNREFUSED", "EACCES", "EOTHER"}

NotReadyErrors == {"ENOENT", "ECONNREFUSED", "EACCES"}

\* a kernel that completes connect() as soon as the socket file is bound
ConnectResults_eager ==
    (IF path = "absent" THEN {"ENOENT"}
     ELSE IF lsock \in {"bound", "listening"} THEN {"Ok"}
     ELSE {"ECONNREFUSED"})
    \cup (IF faults THEN {"EINPROGRESS", "EOTHER"} ELSE {})

ConnectResults ==
    (IF path = "absent" THEN {"ENOENT"}
     ELSE IF lsock = "listening" THEN {"Ok"}
     ELSE IF pathMode = "restricted" THEN {"EACCES", "ECONNREFUSED"}
     ELSE {"ECONNREFUSED"})
    \cup (IF faults THEN {"EINPROGRESS", "EOTHER"} ELSE {})

\* a connection: the messages queued by the sender, whether the sender's end is
\* still open, and whether the listener has it "pending", "accepted" or "reset"
\* (the listening socket was closed before it was accepted)
NewConn == [msgs |-> << >>, senderOpen |-> TRUE, peer |-> "pending"]

SendmsgResults ==
    IF conns[sConn].peer = "reset" THEN {"EOTHER"}
    ELSE {"Ok"} \cup (IF faults THEN {"EAGAIN", "EOTHER"} ELSE {})

Pending == {c \in 1..Len(conns) : conns[c].peer = "pending"}

AcceptResults ==
    (IF Pending # {} THEN {"Ok"} ELSE {"EAGAIN"}) \cup (IF faults THEN {"EOTHER"} ELSE {})

\* closing the listening socket resets the connections nobody accepted
ResetPending(cs) ==
    [c \in 1..Len(cs) |-> IF cs[c].peer = "pending"
                          THEN [cs[c] EXCEPT !.peer = "reset"] ELSE cs[c]]

\* the n lowest free descriptor numbers, in the order they are allocated
AllocFds(used, n) ==
    LET free == (3..(2 + Cardinality(used) + n)) \ used
    IN  [k \in 1..n |-> KthSmallest(free, k)]

(***************************************************************************)
(* The old process.                                                        *)
(***************************************************************************)
\* FileDescriptorsMap::add, called by the owner of the registry between transfers.
\* The identifier that overflows the buffer is explored in the runs in which no
\* system call fails for outside reasons, in registries of at most MaxLongEntries.
Add(bind, fd) ==
    /\ sPc = "idle"
    /\ sCallsLeft > 0
    /\ (bind = NameLong \/ NameLong \in DOMAIN sMap) =>
         (~faults /\ Cardinality(DOMAIN sMap \cup {bind}) <= MaxLongEntries)
    /\ Cardinality(DOMAIN sMap \cup {bind}) <= MaxEntries
    /\ sMap' = add(sMap, bind, fd)
    /\ UNCHANGED <<kvars, sOpen, sPc, sCalls, sCallsLeft, sSentMap, sLocals, sResult,
                   handedOff, rvars, cvars>>

\* FileDescriptorsMap::deserialize on the old process's registry: how a registry
\* that fills, or overfills, one transfer comes to exist.  These registries are
\* explored in the runs in which no system call fails for outside reasons.
Load(n) ==
    /\ sPc = "idle"
    /\ ~faults
    /\ sCalls = 0 /\ sCallsLeft > 0
    /\ sMap = EmptyMap
    /\ ~deserialize(sMap, BulkNames(n), BulkFds(n)).panic
    /\ sMap' = deserialize(sMap, BulkNames(n), BulkFds(n)).map
    /\ UNCHANGED <<kvars, sOpen, sPc, sCalls, sCallsLeft, sSentMap, sLocals, sResult,
                   handedOff, rvars, cvars>>

\* send_fds_to closing the descriptors it transferred along with its socket
SendReturn_closeall(result, cs) ==
    /\ sOpen' = IF result.kind = "Ok" THEN sOpen \ ({sSendFd} \cup Range(sVecFds))
                ELSE sOpen \ {sSendFd}
    /\ conns' = IF sConn = 0 THEN cs
                ELSE [cs EXCEPT ![sConn].senderOpen = FALSE]
    /\ sResult' = result
    /\ sPc' = "idle"

\* the end of send_fds_to: close(send_fd) and return the result
SendReturn(result, cs) ==
    /\ sOpen' = sOpen \ {sSendFd}
    /\ conns' = IF sConn = 0 THEN cs
                ELSE [cs EXCEPT ![sConn].senderOpen = FALSE]
    /\ sResult' = result
    /\ sPc' = "idle"

\* block_socket_and_send_to_new_server up to the connect loop: serialize, encode,
\* socket(), UnixAddr::new()
SendStart ==
    /\ sPc = "idle"
    /\ sCallsLeft > 0
    /\ sCallsLeft' = sCallsLeft - 1
    /\ sCalls' = sCalls + 1
    /\ sSentMap' = sMap
    /\ \E order \in IterOrders(sMap) :
         /\ sVecKey' = serialize(sMap, order)[1]
         /\ sVecFds' = serialize(sMap, order)[2]
         /\ sPayload' = BufSlice(serialize_vec_string(serialize(sMap, order)[1], BUF_SIZE))
    /\ sRetried' = 0 /\ sPolls' = 0 /\ sSleeps' = 0 /\ sPollSleeps' = 0
    /\ sConnects' = 0 /\ sSendmsgs' = 0 /\ sConn' = 0
    /\ \/ \* socket() fails: the ? returns the error, nothing was opened
          /\ sSendFd' = 0
          /\ sOpen' = sOpen
          /\ sResult' = Err("EMFILE")
          /\ sPc' = "idle"
       \/ \* socket() succeeds, UnixAddr::new(path) fails: the ? returns the error
          /\ ~pathValid
          /\ sSendFd' = LowestFree(sOpen)
          /\ sOpen' = sOpen \cup {LowestFree(sOpen)}
          /\ sResult' = Err("ENAMETOOLONG")
          /\ sPc' = "idle"
       \/ /\ pathValid
          /\ sSendFd' = LowestFree(sOpen)
          /\ sOpen' = sOpen \cup {LowestFree(sOpen)}
          /\ sResult' = NoResult
          /\ sPc' = "connect"
    /\ UNCHANGED <<kvars, sMap, handedOff, rvars, cvars>>

\* the connect loop giving up one failure early
RetryCeiling_early(retried) == retried >= MAX_RETRY

\* "if retried > MAX_RETRY", tested after the increment
RetryCeiling(retried) == retried > MAX_RETRY

\* the poll ceiling tested with > instead of >=
PollCeiling_late(polls) == polls > MAX_NONBLOCKING_POLLS

\* "if nonblocking_polls >= MAX_NONBLOCKING_POLLS", tested after the increment
PollCeiling(polls) == polls >= MAX_NONBLOCKING_POLLS

\* one turn of the connect loop
SendConnect ==
    /\ sPc = "connect"
    /\ sConnects' = sConnects + 1
    /\ \E r \in ConnectResults :
         \/ /\ r = "Ok"
            /\ conns' = Append(conns, NewConn)
            /\ sConn' = Len(conns) + 1
            /\ sPc' = "sendmsg"
            /\ UNCHANGED <<sOpen, sResult, sRetried, sPolls, sSleeps, sPollSleeps>>
         \/ /\ r \in NotReadyErrors
            /\ sRetried' = sRetried + 1
            /\ IF RetryCeiling(sRetried + 1)
               THEN /\ SendReturn(Err(r), conns)
                    /\ UNCHANGED <<sSleeps>>
               ELSE /\ sSleeps' = sSleeps + 1
                    /\ UNCHANGED <<conns, sOpen, sResult, sPc>>
            /\ UNCHANGED <<sConn, sPolls, sPollSleeps>>
         \/ /\ r = "EINPROGRESS"
            /\ sPolls' = sPolls + 1
            /\ IF PollCeiling(sPolls + 1)
               THEN /\ SendReturn(Err(r), conns)
                    /\ UNCHANGED <<sPollSleeps>>
               ELSE /\ sPollSleeps' = sPollSleeps + 1
                    /\ UNCHANGED <<conns, sOpen, sResult, sPc>>
            /\ UNCHANGED <<sConn, sRetried, sSleeps>>
         \/ /\ r = "EOTHER"
            /\ SendReturn(Err(r), conns)
            /\ UNCHANGED <<sConn, sRetried, sPolls, sSleeps, sPollSleeps>>
    /\ UNCHANGED <<path, pathMode, pathValid, lsock, faults, sMap, sCalls, sCallsLeft,
                   sSentMap, sVecKey, sVecFds, sPayload, sSendFd, sSendmsgs, handedOff,
                   rvars, cvars>>

\* what a successful sendmsg leaves in the connection: the payload with the
\* descriptors' files attached; a stream socket queues nothing for an empty payload
Queued(payload, fds) ==
    IF Len(payload) = 0 THEN << >>
    ELSE <<[payload |-> payload, files |-> [i \in 1..Len(fds) |-> SenderFile(fds[i])]]>>

\* one turn of the sendmsg loop
SendSendmsg ==
    /\ sPc = "sendmsg"
    /\ sSendmsgs' = sSendmsgs + 1
    /\ \E r \in SendmsgResults :
         \/ /\ r = "Ok"
            /\ SendReturn(Ok(Len(sPayload)),
                          [conns EXCEPT ![sConn].msgs = @ \o Queued(sPayload, sVecFds)])
            /\ handedOff' = Append(handedOff, sVecFds)
            /\ UNCHANGED <<sPolls, sPollSleeps>>
         \/ /\ r = "EAGAIN"
            /\ sPolls' = sPolls + 1
            /\ IF PollCeiling(sPolls + 1)
               THEN /\ SendReturn(Err(r), conns)
                    /\ UNCHANGED <<sPollSleeps>>
               ELSE /\ sPollSleeps' = sPollSleeps + 1
                    /\ UNCHANGED <<conns, sOpen, sResult, sPc>>
            /\ UNCHANGED <<handedOff>>
         \/ /\ r = "EOTHER"
            /\ SendReturn(Err(r), conns)
            /\ UNCHANGED <<handedOff, sPolls, sPollSleeps>>
    /\ UNCHANGED <<path, pathMode, pathValid, lsock, faults, sMap, sCalls, sCallsLeft,
                   sSentMap, sVecKey, sVecFds, sPayload, sSendFd, sConn, sRetried,
                   sSleeps, sConnects, rvars, cvars>>

(***************************************************************************)
(* The new process.                                                        *)
(***************************************************************************)
Without(table, fd) == [f \in (DOMAIN table) \ {fd} |-> table[f]]

\* the socket the new process opened itself
OwnFile(fd) == [kind |-> "own", id |-> fd]

\* FileDescriptorsMap::add in the new process, for a socket it opened itself before
\* it asks for the old process's ones.  Explored in the runs in which no system
\* call fails for outside reasons.
RecvAdd(bind) ==
    /\ rPc = "idle"
    /\ rCalls = 0 /\ rCallsLeft > 0
    /\ ~faults
    /\ rMap = EmptyMap
    /\ rOpen' = rOpen @@ (LowestFree(DOMAIN rOpen) :> OwnFile(LowestFree(DOMAIN rOpen)))
    /\ rMap' = add(rMap, bind, LowestFree(DOMAIN rOpen))
    /\ UNCHANGED <<kvars, rPc, rCalls, rCallsLeft, rMapAtCall, rLocals, rResult, svars, cvars>>

\* get_from_sock up to the removal of the old socket file: socket().unwrap(),
\* UnixAddr::new(path).unwrap()
RecvStart ==
    /\ rPc = "idle"
    /\ rCallsLeft > 0
    /\ rCallsLeft' = rCallsLeft - 1
    /\ rCalls' = rCalls + 1
    /\ rMapAtCall' = rMap
    /\ rListenFd' = LowestFree(DOMAIN rOpen)
    /\ rOpen' = rOpen @@ (LowestFree(DOMAIN rOpen) :> ListenFile)
    /\ lsock' = "created"
    /\ rConnFd' = 0 /\ rRetried' = 0 /\ rSleeps' = 0 /\ rAccepts' = 0 /\ rRecvmsgs' = 0
    /\ rKeys' = << >> /\ rFds' = << >>
    /\ rResult' = NoResult
    /\ rPc' = IF pathValid THEN "unlink" ELSE "panicked"
    /\ UNCHANGED <<path, pathMode, pathValid, conns, faults, rMap, svars, cvars>>

\* unlink(path): "clean up old sock"; a failure is only logged
RecvUnlink ==
    /\ rPc = "unlink"
    /\ path' = "absent"
    /\ rPc' = "bind"
    /\ UNCHANGED <<pathMode, pathValid, lsock, conns, faults, rMap, rOpen, rCalls,
                   rCallsLeft, rMapAtCall, rLocals, rResult, svars, cvars>>

\* bind(listen_fd, &unix_addr).unwrap(): creates the socket file
RecvBind ==
    /\ rPc = "bind"
    /\ IF path = "absent"
       THEN /\ path' = "bound"
            /\ pathMode' = "restricted"
            /\ lsock' = "bound"
            /\ rPc' = "chmod"
       ELSE /\ rPc' = "panicked"
            /\ UNCHANGED <<path, pathMode, lsock>>
    /\ UNCHANGED <<pathValid, conns, faults, rMap, rOpen, rCalls, rCallsLeft, rMapAtCall,
                   rLocals, rResult, svars, cvars>>

\* fchmodat(path, Mode::all()).unwrap()
RecvChmod ==
    /\ rPc = "chmod"
    /\ pathMode' = "all"
    /\ rPc' = "listen"
    /\ UNCHANGED <<path, pathValid, lsock, conns, faults, rMap, rOpen, rCalls, rCallsLeft,
                   rMapAtCall, rLocals, rResult, svars, cvars>>

\* listen(listen_fd, 8).unwrap()
RecvListen ==
    /\ rPc = "listen"
    /\ lsock' = "listening"
    /\ rPc' = "accept"
    /\ UNCHANGED <<path, pathMode, pathValid, conns, faults, rMap, rOpen, rCalls,
                   rCallsLeft, rMapAtCall, rLocals, rResult, svars, cvars>>

\* "//cleanup": if close(listen_fd).is_ok() { unlink(path).unwrap() }
Cleanup(table, cs) ==
    /\ rOpen' = Without(table, rListenFd)
    /\ lsock' = "closed"
    /\ conns' = ResetPending(cs)
    /\ path' = "absent"

\* the Err arm of get_fds_from returning the error without the cleanup
RecvGiveUp_nocleanup(e) ==
    /\ UNCHANGED <<rOpen, lsock, conns, path>>
    /\ rResult' = Err(e)
    /\ rPc' = "idle"

\* the Err arm of get_fds_from: cleanup, return Err(e); get_from_sock's ? returns it
RecvGiveUp(e) ==
    /\ Cleanup(rOpen, conns)
    /\ rResult' = Err(e)
    /\ rPc' = "idle"

\* accept_with_retry allowing one more retry
AcceptCeiling_late(retried) == retried > MAX_RETRY + 1

\* "if retried > MAX_RETRY": the test made on every error of accept()
AcceptCeiling(retried) == retried > MAX_RETRY

\* one turn of the loop of accept_with_retry
RecvAccept ==
    /\ rPc = "accept"
    /\ rAccepts' = rAccepts + 1
    /\ \E r \in AcceptResults :
         \/ /\ r = "Ok"
            /\ rConnFd' = LowestFree(DOMAIN rOpen)
            /\ rOpen' = rOpen @@ (LowestFree(DOMAIN rOpen) :> ConnFile(KthSmallest(Pending, 1)))
            /\ conns' = [conns EXCEPT ![KthSmallest(Pending, 1)].peer = "accepted"]
            /\ rPc' = "recv"
            /\ UNCHANGED <<path, lsock, rRetried, rSleeps, rResult>>
         \/ /\ r # "Ok"
            /\ AcceptCeiling(rRetried)
            /\ RecvGiveUp(r)
            /\ UNCHANGED <<rConnFd, rRetried, rSleeps>>
         \/ /\ r = "EAGAIN"
            /\ ~AcceptCeiling(rRetried)
            /\ rRetried' = rRetried + 1
            /\ rSleeps' = rSleeps + 1
            /\ UNCHANGED <<path, lsock, conns, rOpen, rConnFd, rResult, rPc>>
         \/ /\ r = "EOTHER"
            /\ ~AcceptCeiling(rRetried)
            /\ RecvGiveUp(r)
            /\ UNCHANGED <<rConnFd, rRetried, rSleeps>>
    /\ UNCHANGED <<pathMode, pathValid, faults, rMap, rCalls, rCallsLeft, rMapAtCall,
                   rListenFd, rRecvmsgs, rKeys, rFds, svars, cvars>>

\* What the one recvmsg() on the accepted connection returns: the payload that
\* fits the buffer and the files that fit cmsg_space!([RawFd; MAX_FDS]) of the
\* first queued message, or nothing at end of stream.
RecvConn == rOpen[rConnFd].id
RecvBytes ==
    IF conns[RecvConn].msgs = << >> THEN << >>
    ELSE SubSeq(Head(conns[RecvConn].msgs).payload, 1,
                Min(Len(Head(conns[RecvConn].msgs).payload), BUF_SIZE))
RecvFiles ==
    IF conns[RecvConn].msgs = << >> THEN << >>
    ELSE SubSeq(Head(conns[RecvConn].msgs).files, 1,
                Min(Len(Head(conns[RecvConn].msgs).files), MAX_FDS))

\* the descriptor table after the kernel installed the received files
Installed(table, files) ==
    LET fds == AllocFds(DOMAIN table, Len(files))
    IN  [f \in (DOMAIN table) \cup Range(fds) |->
            IF f \in DOMAIN table THEN table[f]
            ELSE files[CHOOSE i \in 1..Len(files) : fds[i] = f]]

\* recvmsg().unwrap(), the ScmRights loop, the cleanup and the return of
\* get_fds_from; then deserialize_vec_string and deserialize in get_from_sock.
\* The accepted socket is a blocking one: the call returns when a message is
\* queued, when the sender has closed its end, or with an error.
RecvRecvmsg ==
    /\ rPc = "recv"
    /\ rRecvmsgs' = rRecvmsgs + 1
    /\ \/ \* recvmsg fails: unwrap() panics
          /\ faults
          /\ rPc' = "panicked"
          /\ UNCHANGED <<path, lsock, conns, rMap, rOpen, rKeys, rFds, rResult>>
       \/ /\ conns[RecvConn].msgs # << >> \/ ~conns[RecvConn].senderOpen
          /\ rFds' = AllocFds(DOMAIN rOpen, Len(RecvFiles))
          /\ rKeys' = deserialize_vec_string(RecvBytes)
          /\ Cleanup(Installed(rOpen, RecvFiles),
                     [conns EXCEPT ![RecvConn].msgs = IF @ = << >> THEN @ ELSE Tail(@)])
          /\ IF deserialize(rMap, rKeys', rFds').panic
             THEN /\ rPc' = "panicked"
                  /\ rMap' = deserialize(rMap, rKeys', rFds').map
                  /\ UNCHANGED rResult
             ELSE /\ rPc' = "idle"
                  /\ rMap' = deserialize(rMap, rKeys', rFds').map
                  /\ rResult' = Ok(0)
    /\ UNCHANGED <<pathMode, pathValid, faults, rCalls, rCallsLeft, rMapAtCall, rListenFd,
                   rConnFd, rRetried, rSleeps, rAccepts, svars, cvars>>

(***************************************************************************)
(* The registry functions and the codec applied on their own, to inputs    *)
(* drawn from bounded sets.                                                *)
(***************************************************************************)
CodecNames == {NameA, NameB, NameEmpty, NameSpace, NameLong,
               SubSeq(NameLong, 1, BUF_SIZE)}

\* every list of at most MaxCodecLen of these names
NameLists == UNION {[1..n -> CodecNames] : n \in 0..MaxCodecLen}

\* every registry of at most MaxCodecLen of these names, and one that holds as
\* many descriptors as one transfer carries
CodecMaps ==
    UNION {[D -> AddFds] : D \in {X \in SUBSET CodecNames : Cardinality(X) <= MaxCodecLen}}
    \cup {deserialize(EmptyMap, BulkNames(MAX_FDS), BulkFds(MAX_FDS)).map}

\* serialize() of a registry
CodecSerialize ==
    /\ cPhase = "start"
    /\ \E m \in CodecMaps : \E order \in IterOrders(m) :
         /\ cMap' = m
         /\ cVecKey' = serialize(m, order)[1]
         /\ cVecFds' = serialize(m, order)[2]
    /\ cPhase' = "serialized"
    /\ UNCHANGED <<cNames, cBuf, cSize, cPayload, cKeys, cMap2, gvars, kvars, svars, rvars>>

\* deserialize() of the two vectors into a fresh registry
CodecDeserialize ==
    /\ cPhase = "serialized"
    /\ ~deserialize(EmptyMap, cVecKey, cVecFds).panic
    /\ cMap2' = deserialize(EmptyMap, cVecKey, cVecFds).map
    /\ cPhase' = "deserialized"
    /\ UNCHANGED <<cMap, cVecKey, cVecFds, cNames, cBuf, cSize, cPayload, cKeys,
                   gvars, kvars, svars, rvars>>

\* serialize_vec_string() of a list of names into the 2048-byte buffer, and the
\* slice of the buffer that is handed to send_fds_to
CodecEncode ==
    /\ cPhase = "start"
    /\ \E names \in NameLists :
         /\ cNames' = names
         /\ cBuf' = serialize_vec_string(names, BUF_SIZE).bytes
         /\ cSize' = serialize_vec_string(names, BUF_SIZE).size
         /\ cPayload' = BufSlice(serialize_vec_string(names, BUF_SIZE))
    /\ cPhase' = "encoded"
    /\ UNCHANGED <<cMap, cVecKey, cVecFds, cKeys, cMap2, gvars, kvars, svars, rvars>>

\* deserialize_vec_string() of the bytes that were sent
CodecDecode ==
    /\ cPhase = "encoded"
    /\ cKeys' = deserialize_vec_string(cPayload)
    /\ cPhase' = "decoded"
    /\ UNCHANGED <<cMap, cVecKey, cVecFds, cNames, cBuf, cSize, cPayload, cMap2,
                   gvars, kvars, svars, rvars>>

(***************************************************************************)
(* One registry under a sequence of add, deserialize and get calls.        *)
(***************************************************************************)
RegNames == {NameA, NameB, NameEmpty}

\* the vectors handed to deserialize: of equal length or not, with or without an
\* identifier repeated
RegBinds == UNION {[1..n -> RegNames] : n \in 0..2}
RegFds == UNION {[1..n -> AddFds] : n \in 0..2}

\* a call recorded with its arguments; result is what get returned
Call(op, binds, fds, result) == [op |-> op, binds |-> binds, fds |-> fds, result |-> result]
NoCall == Call("new", << >>, << >>, {})

\* FileDescriptorsMap::add
RegAdd(bind, fd) ==
    /\ gCalls < MaxRegistryOps /\ gOp.op # "panic"
    /\ gCalls' = gCalls + 1
    /\ gPrev' = gMap
    /\ gMap' = add(gMap, bind, fd)
    /\ gOp' = Call("add", <<bind>>, <<fd>>, {})
    /\ UNCHANGED <<cPhase, cMap, cVecKey, cVecFds, cNames, cBuf, cSize, cPayload, cKeys,
                   cMap2, kvars, svars, rvars>>

\* FileDescriptorsMap::deserialize on the registry as it is, empty or not
RegDeserialize(binds, fds) ==
    /\ gCalls < MaxRegistryOps /\ gOp.op # "panic"
    /\ gCalls' = gCalls + 1
    /\ gPrev' = gMap
    /\ gMap' = deserialize(gMap, binds, fds).map
    /\ gOp' = Call(IF deserialize(gMap, binds, fds).panic THEN "panic" ELSE "deserialize",
                   binds, fds, {})
    /\ UNCHANGED <<cPhase, cMap, cVecKey, cVecFds, cNames, cBuf, cSize, cPayload, cKeys,
                   cMap2, kvars, svars, rvars>>

\* FileDescriptorsMap::get
RegGet(bind) ==
    /\ gCalls < MaxRegistryOps /\ gOp.op # "panic"
    /\ gCalls' = gCalls + 1
    /\ gPrev' = gMap
    /\ gMap' = gMap
    /\ gOp' = Call("get", <<bind>>, << >>, get(gMap, bind))
    /\ UNCHANGED <<cPhase, cMap, cVecKey, cVecFds, cNames, cBuf, cSize, cPayload, cKeys,
                   cMap2, kvars, svars, rvars>>

(***************************************************************************)
(* Specifications.                                                         *)
(***************************************************************************)
\* Both registries are new(); the old process has its listening sockets open;
\* the path may hold a socket file left by an earlier run and may or may not
\* fit a socket address.
Start ==
    /\ path \in {"absent", "stale"}
    /\ pathMode = "all"
    /\ pathValid \in BOOLEAN
    /\ lsock = "none"
    /\ conns = << >>
    /\ sMap = EmptyMap
    /\ sOpen = Range(BulkFds(MAX_FDS + 1))
    /\ sPc = "idle"
    /\ sCalls = 0
    /\ sSentMap = EmptyMap
    /\ sVecKey = << >> /\ sVecFds = << >> /\ sPayload = << >>
    /\ sSendFd = 0 /\ sConn = 0
    /\ sRetried = 0 /\ sPolls = 0 /\ sSleeps = 0 /\ sPollSleeps = 0
    /\ sConnects = 0 /\ sSendmsgs = 0
    /\ sResult = NoResult
    /\ handedOff = << >>
    /\ rMap = EmptyMap
    /\ rOpen = EmptyMap
    /\ rPc = "idle"
    /\ rCalls = 0
    /\ rMapAtCall = EmptyMap
    /\ rListenFd = 0 /\ rConnFd = 0
    /\ rRetried = 0 /\ rSleeps = 0 /\ rAccepts = 0 /\ rRecvmsgs = 0
    /\ rKeys = << >> /\ rFds = << >>
    /\ rResult = NoResult
    /\ cPhase = "start"
    /\ cMap = EmptyMap /\ cVecKey = << >> /\ cVecFds = << >>
    /\ cNames = << >> /\ cBuf = << >> /\ cSize = 0 /\ cPayload = << >> /\ cKeys = << >>
    /\ cMap2 = EmptyMap
    /\ gMap = EmptyMap /\ gPrev = EmptyMap /\ gOp = NoCall /\ gCalls = 0

\* one transfer: one call of block_socket_and_send_to_new_server in the old
\* process and one call of get_from_sock in the new one
Init ==
    /\ Start
    /\ faults \in BOOLEAN
    /\ sCallsLeft = 1
    /\ rCallsLeft = 1

Next ==
    \/ \E l \in Listeners : Add(l[1], l[2])
    \/ \E n \in BulkSizes : Load(n)
    \/ SendStart
    \/ SendConnect
    \/ SendSendmsg
    \/ RecvAdd(NameA)
    \/ RecvStart
    \/ RecvUnlink
    \/ RecvBind
    \/ RecvChmod
    \/ RecvListen
    \/ RecvAccept
    \/ RecvRecvmsg

Spec == Init /\ [][Next]_vars

\* one transfer, of an empty or of a one-entry registry, in which each process,
\* once in one of its retry loops, goes on running it: the loops sleep and try
\* again, they wait for nothing else
LiveNext ==
    \/ Add(NameA, 3)
    \/ SendStart
    \/ SendConnect
    \/ SendSendmsg
    \/ RecvStart
    \/ RecvUnlink
    \/ RecvBind
    \/ RecvChmod
    \/ RecvListen
    \/ RecvAccept
    \/ RecvRecvmsg

SpecLive ==
    /\ Init /\ [][LiveNext]_vars
    /\ WF_vars(SendConnect) /\ WF_vars(SendSendmsg) /\ WF_vars(RecvAccept)

CodecInit == Init /\ path = "absent" /\ pathValid /\ faults

CodecNext ==
    \/ CodecSerialize
    \/ CodecDeserialize
    \/ CodecEncode
    \/ CodecDecode

SpecCodec == CodecInit /\ [][CodecNext]_vars

RegistryNext ==
    \/ \E b \in RegNames, fd \in AddFds : RegAdd(b, fd)
    \/ \E binds \in RegBinds, fds \in RegFds : RegDeserialize(binds, fds)
    \/ \E b \in RegNames : RegGet(b)

SpecRegistry == CodecInit /\ [][RegistryNext]_vars

\* transfers repeated by the old process, with no outside failures
RepeatInit ==
    /\ Start
    /\ path = "absent"
    /\ pathValid
    /\ faults = FALSE
    /\ sCallsLeft = MaxSendCalls
    /\ rCallsLeft = 1

SpecRepeat == RepeatInit /\ [][Next]_vars

(***************************************************************************)
(* Properties.                                                             *)
(***************************************************************************)
BothReturnedOk ==
    /\ sCalls = 1 /\ sPc = "idle" /\ sResult.kind = "Ok"
    /\ rCalls = 1 /\ rPc = "idle" /\ rResult.kind = "Ok"

\* C1: when one send and one receive on the same path both return success, the
\* receiver having started from an empty registry and the sender's registry
\* holding at most MAX_FDS entries whose identifiers are non-empty, free of
\* whitespace and fit the buffer when joined, the receiver's registry has the
\* sender's identifiers, each mapped to a descriptor of the socket the sender had
\* for it and at its position.
C1_Handoff ==
    (/\ BothReturnedOk
     /\ rMapAtCall = EmptyMap
     /\ Cardinality(DOMAIN sSentMap) <= MAX_FDS
     /\ \A b \in DOMAIN sSentMap : WellFormedName(b)
     /\ Len(Join(sVecKey)) <= BUF_SIZE)
    => /\ DOMAIN rMap = DOMAIN sSentMap
       /\ \A b \in DOMAIN sSentMap :
            rMap[b] \in DOMAIN rOpen /\ rOpen[rMap[b]] = SenderFile(sSentMap[b])
       /\ \A i \in 1..Len(sVecKey) : rOpen[rMap[sVecKey[i]]] = SenderFile(sVecFds[i])

C1_Witness ==
    /\ BothReturnedOk
    /\ rMapAtCall = EmptyMap
    /\ Cardinality(DOMAIN sSentMap) = MAX_FDS
    /\ DOMAIN rMap = DOMAIN sSentMap

NoWhitespace(v) == \A i \in 1..Len(v) : \A j \in 1..Len(v[i]) : ~IsWhitespace(v[i][j])
Distinct(v) == \A i, j \in 1..Len(v) : v[i] = v[j] => i = j

\* C2, as stated: for any non-empty list of distinct identifiers without
\* whitespace, decoding the encoded list gives the list back.
C2_Original ==
    (cPhase = "decoded" /\ Len(cNames) > 0 /\ Distinct(cNames) /\ NoWhitespace(cNames))
    => cKeys = cNames

\* C2, amended: for any non-empty list of distinct identifiers that are non-empty,
\* have no whitespace and whose space-joined length is at most BUF_SIZE, decoding
\* the encoded list gives the list back, in the same order.
C2_RoundTrip ==
    (/\ cPhase = "decoded"
     /\ Len(cNames) > 0 /\ Distinct(cNames) /\ NoWhitespace(cNames)
     /\ \A i \in 1..Len(cNames) : Len(cNames[i]) > 0
     /\ Len(Join(cNames)) <= BUF_SIZE)
    => cKeys = cNames

C2_Witness ==
    /\ cPhase = "decoded"
    /\ Len(cNames) = 2 /\ WellFormedNames(cNames)
    /\ Len(Join(cNames)) <= BUF_SIZE
    /\ cKeys = cNames

\* C3: the two vectors serialize returns have the length of the registry and the
\* i-th name is the key of the i-th descriptor; deserialize of the two into a
\* fresh registry gives a registry equal to the original.
C3_RegistryRoundTrip ==
    /\ cPhase \in {"serialized", "deserialized"} =>
         /\ Len(cVecKey) = Len(cVecFds)
         /\ Len(cVecKey) = Cardinality(DOMAIN cMap)
         /\ \A i \in 1..Len(cVecKey) :
              cVecKey[i] \in DOMAIN cMap /\ cVecFds[i] = cMap[cVecKey[i]]
    /\ cPhase = "deserialized" => cMap2 = cMap

C3_Witness ==
    /\ cPhase = "deserialized"
    /\ Cardinality(DOMAIN cMap) = MAX_FDS
    /\ cMap2 = cMap

\* the call ended in the connect loop on a not-ready error, and no connect() of
\* the call reported anything else
AllConnectsNotReady ==
    /\ sCalls = 1 /\ sPc = "idle"
    /\ sResult.kind = "Err" /\ sResult.err \in NotReadyErrors
    /\ sPolls = 0

\* C4: a call all of whose connect() calls fail with ENOENT, ECONNREFUSED or
\* EACCES has slept the retry interval exactly MAX_RETRY times when it returns,
\* has called connect() MAX_RETRY + 1 times and sendmsg() never, and that stays so;
\* and the error a call returns from the connect loop is one its last connect()
\* reports in the state it is made in, a not-ready one when the ceiling ends the
\* call.
C4_RetryCeiling ==
    /\ [](AllConnectsNotReady =>
            sSleeps = MAX_RETRY /\ sConnects = MAX_RETRY + 1 /\ sSendmsgs = 0)
    /\ [][(sPc = "connect" /\ sPc' = "idle") =>
            /\ sResult'.kind = "Err"
            /\ sResult'.err \in ConnectResults
            /\ sRetried' # sRetried => sResult'.err \in NotReadyErrors]_vars

C4_Witness == AllConnectsNotReady /\ sSleeps = MAX_RETRY

\* C5: whenever send_fds_to has returned after opening its socket, the socket is
\* closed.
C5_SocketReleased ==
    (sPc = "idle" /\ sSendFd # 0) => sSendFd \notin sOpen

\* C6: when the receive that follows a successful accept has ended, by success or
\* by failure, the listening descriptor is closed and the path is gone.
C6_CleanupAfterAccept ==
    (rRecvmsgs > 0 /\ rPc \in {"idle", "panicked"})
    => (lsock = "closed" /\ path = "absent" /\ rListenFd \notin DOMAIN rOpen)

\* C7: serialize_vec_string writes the first min(length of the joined names,
\* BUF_SIZE) bytes of the joined names, nothing past the buffer, returns that
\* count, and exactly those bytes are the payload handed to the sender.
C7_Capacity ==
    cPhase \in {"encoded", "decoded"} =>
        /\ cSize = Min(Len(Join(cNames)), BUF_SIZE)
        /\ Len(cBuf) <= BUF_SIZE
        /\ cBuf = SubSeq(Join(cNames), 1, Min(Len(Join(cNames)), BUF_SIZE))
        /\ cPayload = SubSeq(Join(cNames), 1, Min(Len(Join(cNames)), BUF_SIZE))

C7_Witness ==
    /\ cPhase = "encoded"
    /\ Len(Join(cNames)) > BUF_SIZE
    /\ cSize = BUF_SIZE

\* C8: when the names decoded from the payload and the descriptors received
\* differ in number, get_from_sock has aborted: it is not idle again, returned no
\* value, and the registry is what it was when the call started.
C8_MismatchFatal ==
    Len(rKeys) # Len(rFds)
    => (rPc = "panicked" /\ rResult = NoResult /\ rMap = rMapAtCall)

C8_Witness ==
    /\ rPc = "panicked"
    /\ Len(rKeys) > Len(rFds)
    /\ Len(rFds) > 0
    /\ rMapAtCall # EmptyMap

\* C9: no descriptor is in the ancillary data of successful sends more than once,
\* and none that was handed off was closed by the old process.
C9_ExactlyOnce ==
    /\ \A i, j \in 1..Len(handedOff) :
         \A k \in 1..Len(handedOff[i]), l \in 1..Len(handedOff[j]) :
            handedOff[i][k] = handedOff[j][l] => (i = j /\ k = l)
    /\ \A i \in 1..Len(handedOff) : Range(handedOff[i]) \subseteq sOpen

\* C10: every step of a call of block_socket_and_send_to_new_server leaves the
\* registry as it is and opens or closes no descriptor but its own socket.
C10_SendFrame ==
    [][(sPc # "idle" \/ sPc' # "idle" \/ sCalls' # sCalls) =>
          (sMap' = sMap /\ sOpen' \ {sSendFd'} = sOpen \ {sSendFd'})]_vars

C10_Witness ==
    /\ sPc = "idle" /\ sResult.kind = "Ok"
    /\ sMap = sSentMap /\ sMap # EmptyMap
    /\ Range(sVecFds) \subseteq sOpen
    /\ sSendFd \notin sOpen

\* C11: the sendmsg phase has the whole poll budget whatever the connect phase
\* used: a call that gave up on EAGAIN has called sendmsg() MAX_NONBLOCKING_POLLS
\* times.
C11_SendBudget ==
    (sPc = "idle" /\ sResult = Err("EAGAIN")) => sSendmsgs = MAX_NONBLOCKING_POLLS

\* C12: in the connect loop the EINPROGRESS polls and the not-ready retries are
\* counted apart: every failed connect() is one of the two, each followed by its
\* own sleep, a step never moves both counters, there are fewer than
\* MAX_NONBLOCKING_POLLS polls while the loop goes on, and the call that ends on
\* EINPROGRESS ends on the MAX_NONBLOCKING_POLLS-th, having slept the poll
\* interval before each but the first and made no sendmsg().
C12_ConnectPolls ==
    /\ [](sPc = "connect" =>
            /\ sPolls < MAX_NONBLOCKING_POLLS /\ sRetried <= MAX_RETRY
            /\ sConnects = sRetried + sPolls
            /\ sSleeps = sRetried /\ sPollSleeps = sPolls)
    /\ []((sPc = "idle" /\ sResult = Err("EINPROGRESS")) =>
            /\ sPolls = MAX_NONBLOCKING_POLLS
            /\ sPollSleeps = MAX_NONBLOCKING_POLLS - 1
            /\ sRetried <= MAX_RETRY /\ sSleeps = sRetried
            /\ sConnects = sRetried + sPolls
            /\ sSendmsgs = 0)
    /\ [][sPc = "connect" =>
            /\ sPolls' # sPolls => (sRetried' = sRetried /\ sSleeps' = sSleeps)
            /\ sRetried' # sRetried => (sPolls' = sPolls /\ sPollSleeps' = sPollSleeps)]_vars

C12_Witness ==
    /\ sPc = "idle" /\ sResult = Err("EINPROGRESS")
    /\ sRetried = MAX_RETRY

\* C13: a call that ended on an error the sender does not classify ended on the
\* first such error: every earlier connect() or sendmsg() was a counted retry
\* or poll followed by its sleep, or the connect() that succeeded; the step that
\* returns it sleeps no more; sendmsg() is called only on a connected socket;
\* and Ok(n) is returned only for a sendmsg() that succeeded, n being its count.
C13_Classification ==
    /\ []((sPc = "idle" /\ sResult = Err("EOTHER")) =>
            /\ sSleeps = sRetried /\ sPollSleeps = sPolls
            /\ sConnects + sSendmsgs =
                 sRetried + sPolls + 1 + (IF sSendmsgs > 0 THEN 1 ELSE 0))
    /\ []((sSendmsgs > 0 \/ sPc = "sendmsg") => (sConn # 0 /\ sConn <= Len(conns)))
    /\ []((sPc = "idle" /\ sResult.kind = "Ok") =>
            /\ sSendmsgs > 0
            /\ Len(handedOff) = 1 /\ handedOff[1] = sVecFds
            /\ sResult.n = Len(sPayload))
    /\ [][(sPc # "idle" /\ sResult' = Err("EOTHER")) =>
            (sPc' = "idle" /\ sSleeps' = sSleeps /\ sPollSleeps' = sPollSleeps)]_vars

C13_Witness ==
    /\ sPc = "idle" /\ sResult = Err("EOTHER")
    /\ sSendmsgs > 1 /\ sRetried > 0 /\ sPolls > 1

\* C14: accept_with_retry sleeps at most MAX_RETRY times, and an error of
\* accept() other than EAGAIN is returned at once.
C14_AcceptCeiling ==
    /\ rSleeps <= MAX_RETRY
    /\ (rPc = "idle" /\ rResult = Err("EOTHER")) => rAccepts = rSleeps + 1

RecvOrder ==
    {<<"idle", "unlink">>, <<"unlink", "bind">>, <<"bind", "chmod">>,
     <<"chmod", "listen">>, <<"listen", "accept">>, <<"accept", "recv">>,
     <<"accept", "idle">>, <<"recv", "idle">>,
     <<"idle", "panicked">>, <<"bind", "panicked">>, <<"recv", "panicked">>}

\* C16: the receiver goes through unlink, bind, chmod, listen, accept in that
\* order; a connect() made while the receiver is not listening does not connect
\* and, when no system call fails for outside reasons, counts as a not-ready
\* retry; the sender is connected, and sendmsg() is called, only once the
\* receiver has listened; recvmsg() is called only on an accepted connection.
C16_Rendezvous ==
    /\ [][rPc' # rPc => <<rPc, rPc'>> \in RecvOrder]_vars
    /\ [](rPc = "bind" => path = "absent")
    /\ [](rPc = "chmod" => (path = "bound" /\ lsock = "bound"))
    /\ [](rPc = "listen" => (path = "bound" /\ pathMode = "all" /\ lsock = "bound"))
    /\ [](rPc \in {"accept", "recv"} => lsock = "listening")
    /\ []((sConn # 0 \/ sSendmsgs > 0 \/ sPc = "sendmsg") =>
            lsock \in {"listening", "closed"})
    /\ []((rRecvmsgs > 0 \/ rPc = "recv") => (rConnFd # 0 /\ rAccepts > 0))
    /\ [][(sPc = "connect" /\ sConnects' # sConnects /\ lsock # "listening") =>
            /\ sConn' = 0 /\ sPc' # "sendmsg"
            /\ ~faults => sRetried' = sRetried + 1]_vars

C16_Witness ==
    /\ BothReturnedOk
    /\ sRetried > 0
    /\ Cardinality(DOMAIN rMap) = MaxEntries

\* C19: get_from_sock returns Ok only when a sendmsg() of the sender succeeded.
C19_SuccessImpliesTransfer ==
    (rPc = "idle" /\ rResult.kind = "Ok") => (Len(handedOff) > 0 /\ sResult.kind = "Ok")

\* C20: when get_from_sock has returned, the listening socket and the accepted
\* connection are closed: the descriptors open in the new process are the ones
\* it had before the call and the ones it received.
C20_NoReceiverLeak ==
    (rPc = "idle" /\ rCalls > 0) =>
        /\ rListenFd \notin DOMAIN rOpen
        /\ rConnFd # 0 => rConnFd \notin DOMAIN rOpen
        /\ DOMAIN rOpen \subseteq Range(rFds) \cup {rMapAtCall[b] : b \in DOMAIN rMapAtCall}

\* the position of the last occurrence of b in binds
LastIndex(binds, b) == CHOOSE i \in 1..Len(binds) :
    binds[i] = b /\ \A j \in (i + 1)..Len(binds) : binds[j] # b

\* C17: after add(k, d), get(k) is d and every other identifier maps to what it
\* did; after deserialize every identifier of binds maps to the descriptor at its
\* last position and every other identifier maps to what it did; get returns
\* the descriptor of the identifier, None if it is absent, and changes nothing;
\* serialize names every identifier of the registry once; and a deserialize that
\* aborts changed nothing.
C17_InsertOrReplace ==
    /\ gOp.op = "add" =>
         /\ get(gMap, gOp.binds[1]) = {gOp.fds[1]}
         /\ \A b \in RegNames \ {gOp.binds[1]} : get(gMap, b) = get(gPrev, b)
    /\ gOp.op = "deserialize" =>
         \A b \in RegNames :
            IF b \in Range(gOp.binds)
            THEN get(gMap, b) = {gOp.fds[LastIndex(gOp.binds, b)]}
            ELSE get(gMap, b) = get(gPrev, b)
    /\ gOp.op = "get" =>
         /\ gMap = gPrev
         /\ gOp.binds[1] \notin DOMAIN gPrev => gOp.result = {}
         /\ gOp.binds[1] \in DOMAIN gPrev => gOp.result = {gPrev[gOp.binds[1]]}
    /\ \A order \in IterOrders(gMap) :
         /\ Distinct(serialize(gMap, order)[1])
         /\ Len(serialize(gMap, order)[1]) = Cardinality(DOMAIN gMap)
    /\ gOp.op = "panic" => gMap = gPrev
    /\ DOMAIN gMap \subseteq RegNames

C17_Witness ==
    /\ gOp.op = "deserialize"
    /\ Len(gOp.binds) = 2 /\ gOp.binds[1] = gOp.binds[2] /\ gOp.fds[1] # gOp.fds[2]
    /\ Cardinality(DOMAIN gPrev) = 2
    /\ gOp.binds[1] \in DOMAIN gPrev /\ gPrev[gOp.binds[1]] # gOp.fds[2]

\* C18: a call of send_fds_to that is in one of its loops returns, with Ok or
\* with an error, having slept the retry interval at most MAX_RETRY times and
\* the poll interval fewer than MAX_NONBLOCKING_POLLS times over both loops, and
\* having made a bounded number of connect() and sendmsg() calls;
\* accept_with_retry leaves its loop after a bounded number of accept() calls.
C18_BoundedTermination ==
    /\ [](/\ sSleeps <= MAX_RETRY /\ sRetried <= MAX_RETRY + 1
          /\ sPollSleeps < MAX_NONBLOCKING_POLLS /\ sPolls <= MAX_NONBLOCKING_POLLS
          /\ sConnects + sSendmsgs <= MAX_RETRY + MAX_NONBLOCKING_POLLS + 1
          /\ rAccepts <= MAX_RETRY + 2)
    /\ []((sPc = "idle" /\ sCalls > 0) => sResult.kind \in {"Ok", "Err"})
    /\ (sPc # "idle") ~> (sPc = "idle")
    /\ (rPc = "accept") ~> (rPc # "accept")

C18_Witness ==
    /\ sPc = "idle" /\ sResult = Err("EAGAIN")
    /\ sConnects + sSendmsgs = MAX_RETRY + MAX_NONBLOCKING_POLLS + 1
    /\ rAccepts = MAX_RETRY + 2

====
